---------------------------- MODULE Spec2Model ----------------------------
(***************************************************************************)
(* Client-side request orchestration of the AI photo editor (src/api.js):  *)
(* the rate-limit gate, the chat history, the streaming decoder of         *)
(* sendChatMessage, the image and prompt operations with their model and   *)
(* image; the proxy handlers of src/api/; and the image cache of the page  *)
(* (src/script.js).                                                        *)
(*                                                                         *)
(* Text is modelled as a sequence of tokens (one-character or short        *)
(* strings).  A stream body is a sequence of tokens in which "\n" ends a   *)
(* line; the network delivers it in chunks cut at any token boundary.      *)
(***************************************************************************)
EXTENDS Integers, Sequences, FiniteSets, TLC

(***************************************************************************)
(* Program constants and model bounds                                      *)
(***************************************************************************)
\* new RateLimiter(10, 60000)
MaxRequests == 10
TimeWindow == 60000

\* bounds of the model
MaxSends == 3        \* sendChatMessage invocations in one behaviour
MaxLines == 2        \* lines of a stream body in the decoder specification
MaxTicks == 1        \* clock advances in one behaviour
MaxOps == 11         \* admissions within one window in the limiter specification
MaxCalls == 2        \* image and prompt operations before the chat message

Slots == {1, 2}      \* invocations of sendChatMessage that may be in flight

VARIABLES
    now,          \* Date.now(), ms
    ticks,        \* number of clock advances so far (bounds the clock)
    requests,     \* apiRateLimiter's window: timestamps of recorded admissions
    chatHistory,  \* chatHistory of src/api.js; each turn also carries the
                  \* number of the invocation that pushed it (id, history only)
    calls,        \* per slot: the position and locals of one sendChatMessage
    sends,        \* invocations of sendChatMessage so far
    admitted,     \* timestamps, within the trailing window, of the API
                  \* operations that passed checkRateLimit (history only)
    ops,          \* per image/prompt operation: the position of its invocation
    recorded,     \* timestamps of the explicit record steps of the limiter
                  \* (history only)
    currentGenerationModel,   \* the selected model ids
    currentEditModel,
    currentChatModel,
    proxy,        \* the invocation of a proxy handler (src/api/*.js): its request,
                  \* its position, its response, its upstream call
    ui            \* the state of the page (src/script.js): the image file, the
                  \* cached encoding, the file reads in flight, the edits sent

models == <<currentGenerationModel, currentEditModel, currentChatModel>>

vars == <<now, ticks, requests, chatHistory, calls, sends, admitted, ops, recorded,
          models, proxy, ui>>

(***************************************************************************)
(* Strings as token sequences                                              *)
(***************************************************************************)
NL == "\n"
Whitespace == {" ", "\r", NL}

\* String.prototype.trim
RECURSIVE TrimLeft(_)
TrimLeft(s) ==
    IF s # <<>> /\ Head(s) \in Whitespace THEN TrimLeft(Tail(s)) ELSE s

RECURSIVE TrimRight(_)
TrimRight(s) ==
    IF s # <<>> /\ s[Len(s)] \in Whitespace
    THEN TrimRight(SubSeq(s, 1, Len(s) - 1))
    ELSE s

trim(s) == TrimRight(TrimLeft(s))

\* String.prototype.indexOf, 1-based; 0 stands for JavaScript's -1
indexOf(s, ch) ==
    IF \E i \in 1..Len(s) : s[i] = ch
    THEN CHOOSE i \in 1..Len(s) : s[i] = ch /\ \A j \in 1..(i - 1) : s[j] # ch
    ELSE 0

startsWith(s, p) == Len(s) >= Len(p) /\ SubSeq(s, 1, Len(p)) = p

\* 'data: '
DataPrefix == <<"data", ":", " ">>
\* '[DONE]'
DoneSentinel == <<"[DONE]">>

(***************************************************************************)
(* JSON.parse on the payloads a stream can carry.  An object is "{",       *)
(* fields, "}"; each field is one token:                                   *)
(*   "c:a", "c:b"     choices[0].delta.content = "a" / "b"                 *)
(*   "c:"             choices[0].delta.content = ""                        *)
(*   "e"              error: {} (no message)                               *)
(*   "e:boom"         error: {message: "boom"}                             *)
(*   "e:Stream error" error: {message: "Stream error"}                     *)
(* Anything else (a truncated object, the bare word) is a SyntaxError.     *)
(***************************************************************************)
ContentFields == {"c:a", "c:b", "c:"}
ErrorFields == {"e", "e:boom", "e:Stream error"}
FieldTokens == ContentFields \cup ErrorFields

JSONparse(data) ==
    LET d == trim(data) IN
    IF /\ Len(d) >= 2
       /\ d[1] = "{"
       /\ d[Len(d)] = "}"
       /\ \A i \in 2..(Len(d) - 1) : d[i] \in FieldTokens
    THEN [ok |-> TRUE, fields |-> SubSeq(d, 2, Len(d) - 1)]
    ELSE [ok |-> FALSE, fields |-> <<>>]

\* the last field of a kind wins, as in JSON.parse
LastField(fields, kind) ==
    LET I == {i \in 1..Len(fields) : fields[i] \in kind} IN
    IF I = {} THEN "" ELSE fields[CHOOSE i \in I : \A j \in I : j <= i]

\* parsed.error is truthy
HasError(parsed) == LastField(parsed.fields, ErrorFields) # ""

\* parsed.error.message || 'Stream error'
ErrorMessage(parsed) ==
    LET f == LastField(parsed.fields, ErrorFields) IN
    IF f = "e:boom" THEN "boom" ELSE "Stream error"

\* parsed.choices?.[0]?.delta?.content, "" when absent
DeltaContent(parsed) ==
    LET f == LastField(parsed.fields, ContentFields) IN
    IF f = "c:a" THEN <<"a">> ELSE IF f = "c:b" THEN <<"b">> ELSE <<>>


(***************************************************************************)
(* The decoder loop of sendChatMessage.  A decoder state holds the locals  *)
(* buffer and fullContent, the increments handed to onChunk so far         *)
(* (emitted), the calls of onChunk with their two arguments (sink),        *)
(* whether an exception is propagating (thrown), and history flags: a      *)
(* [DONE] line / a payload with an error field has been processed, and an  *)
(* increment was delivered after one; the iterations of the line loop so   *)
(* far and the characters they removed from the buffer.  onChunk is the    *)
(* argument of the call: null, or a function that returns or throws.       *)
(***************************************************************************)
\* the onChunk argument: none, a function that returns, one that throws an
\* Error('boom'), one that throws an Error('Stream error')
Returns == "returns"
OnChunks == {"null", Returns, "throws boom", "throws Stream error"}

\* whether a call of onChunk throws, and the message of what it throws
Throws(onChunk) == onChunk \in {"throws boom", "throws Stream error"}
ThrownMessage(onChunk) == IF onChunk = "throws Stream error" THEN "Stream error" ELSE "boom"

NewDecoder ==
    [buffer |-> <<>>, fullContent |-> <<>>, emitted |-> <<>>, sink |-> <<>>,
     thrown |-> FALSE, onChunk |-> Returns,
     sawDone |-> FALSE, sawError |-> FALSE, lateDone |-> FALSE, lateError |-> FALSE,
     iterations |-> 0, removed |-> 0]

\* a slip: the inner catch rethrows whatever it caught
Rethrown_Always(message) == TRUE

\* catch (parseError): rethrow only an Error whose message is 'Stream error'
Rethrown(message) == message = "Stream error"

\* a slip: increments are handed to onChunk two at a time
Deliver_Batched(st, content) ==
    IF content = <<>> THEN st
    ELSE [st EXCEPT !.fullContent = @ \o content,
                    !.emitted = Append(@, content),
                    !.sink = IF Len(st.emitted) % 2 = 1
                             THEN Append(@, [content |-> st.emitted[Len(st.emitted)] \o content,
                                             fullContent |-> st.fullContent \o content])
                             ELSE @,
                    !.lateDone = @ \/ st.sawDone,
                    !.lateError = @ \/ st.sawError]

\* if (content) { fullContent += content; if (onChunk) onChunk(content, fullContent) }
\* and what onChunk throws lands in the inner catch
Deliver(st, content) ==
    IF content = <<>> THEN st
    ELSE [st EXCEPT !.fullContent = @ \o content,
                    !.emitted = Append(@, content),
                    !.sink = IF st.onChunk = "null" THEN @
                             ELSE Append(@, [content |-> content,
                                             fullContent |-> st.fullContent \o content]),
                    !.thrown = Throws(st.onChunk) /\ Rethrown(ThrownMessage(st.onChunk)),
                    !.lateDone = @ \/ st.sawDone,
                    !.lateError = @ \/ st.sawError]

\* if (data === '[DONE]') continue;
AfterDone(st) == [st EXCEPT !.sawDone = TRUE]

\* the body of the inner try, for a payload that parsed
HandleParsed(st, parsed) ==
    IF HasError(parsed)
    THEN [st EXCEPT !.sawError = TRUE, !.thrown = Rethrown(ErrorMessage(parsed))]
    ELSE Deliver(st, DeltaContent(parsed))

\* a slip: the parse error ends the exchange
OnParseError_Fatal(st) == [st EXCEPT !.thrown = TRUE]

\* JSON.parse threw: console.debug('Parse error (non-fatal)'), carry on
OnParseError(st) == st

\* one isolated line: skip, sentinel, or parse
DecodeLine(st, line) ==
    IF line = <<>> \/ startsWith(line, <<":">>) THEN st
    ELSE IF ~startsWith(line, DataPrefix) THEN st
    ELSE LET data == SubSeq(line, Len(DataPrefix) + 1, Len(line)) IN
         IF data = DoneSentinel THEN AfterDone(st)
         ELSE LET parsed == JSONparse(data) IN
              IF parsed.ok THEN HandleParsed(st, parsed) ELSE OnParseError(st)

\* while (true) { lineEnd = buffer.indexOf('\n'); if (lineEnd === -1) break; ... }
RECURSIVE ProcessLines(_)
ProcessLines(st) ==
    LET lineEnd == indexOf(st.buffer, NL) IN
    IF lineEnd = 0 THEN st
    ELSE LET line == trim(SubSeq(st.buffer, 1, lineEnd - 1))
             rest == SubSeq(st.buffer, lineEnd + 1, Len(st.buffer))
             nxt  == DecodeLine([st EXCEPT !.buffer = rest,
                                           !.iterations = @ + 1,
                                           !.removed = @ + Len(st.buffer) - Len(rest)],
                                line)
         IN IF nxt.thrown THEN nxt ELSE ProcessLines(nxt)

\* a slip: the unfinished line of the previous chunk is not carried over
AppendChunk_NoCarry(buffer, chunk) == chunk

\* buffer += decoder.decode(value, { stream: true })
AppendChunk(buffer, chunk) == buffer \o chunk

\* one iteration of the outer loop for a chunk that arrived
OnChunkRead(st, chunk) ==
    ProcessLines([st EXCEPT !.buffer = AppendChunk(st.buffer, chunk)])

(***************************************************************************)
(* Rate limiter (class RateLimiter): a sliding window of timestamps.       *)
(***************************************************************************)
\* discard all recorded timestamps older than now - timeWindow
Purge(reqs, t) == SelectSeq(reqs, LAMBDA x : x >= t - TimeWindow)

\* admitted iff the remaining count is below capacity
canMakeRequest(reqs, t) == Len(Purge(reqs, t)) < MaxRequests

\* the separate, explicit record step
recordAdmission(reqs, t) == Append(Purge(reqs, t), t)

\* getRemainingRequests
getRemainingRequests(reqs, t) == MaxRequests - Len(Purge(reqs, t))

\* getTimeUntilNextRequest: until the oldest retained timestamp leaves the
\* window, zero when a call is admittable
getTimeUntilNextRequest(reqs, t) ==
    IF canMakeRequest(reqs, t) THEN 0 ELSE Purge(reqs, t)[1] + TimeWindow - t

\* Math.ceil(ms / 1000)
CeilSeconds(ms) == (ms + 999) \div 1000

\* a slip: the gate records the admission it grants
checkRateLimit_Records(reqs, t) ==
    [passes |-> canMakeRequest(reqs, t),
     waitTime |-> CeilSeconds(getTimeUntilNextRequest(reqs, t)),
     window |-> IF canMakeRequest(reqs, t) THEN recordAdmission(reqs, t)
                ELSE Purge(reqs, t)]

\* checkRateLimit: whether the call passes, the seconds to wait named in the
\* error when it does not, and the limiter's window afterwards
checkRateLimit(reqs, t) ==
    [passes |-> canMakeRequest(reqs, t),
     waitTime |-> CeilSeconds(getTimeUntilNextRequest(reqs, t)),
     window |-> Purge(reqs, t)]

\* getRateLimitStatus: the status returned, and the limiter's window afterwards
getRateLimitStatus(reqs, t) ==
    [remaining |-> getRemainingRequests(reqs, t),
     waitTime |-> CeilSeconds(getTimeUntilNextRequest(reqs, t)),
     window |-> Purge(reqs, t)]

\* history only: the admissions of the trailing window, with one more at t
Admit(log, t) == Append(SelectSeq(log, LAMBDA x : t - x < TimeWindow), t)

(***************************************************************************)
(* Conversation state                                                      *)
(***************************************************************************)
\* Array.prototype.pop
pop(h) == IF h = <<>> THEN h ELSE SubSeq(h, 1, Len(h) - 1)

\* chatHistory.push({role: 'user', content: sanitizedMessage})
PushUser(h, content, id) == Append(h, [role |-> "user", content |-> content, id |-> id])

\* a slip: the assistant turn holds the first increment only
PushAssistant_FirstIncrement(h, fullContent, id) ==
    IF fullContent = <<>> THEN h
    ELSE Append(h, [role |-> "assistant", content |-> SubSeq(fullContent, 1, 1), id |-> id])

\* if (fullContent) chatHistory.push({role: 'assistant', content: fullContent})
PushAssistant(h, fullContent, id) ==
    IF fullContent = <<>> THEN h
    ELSE Append(h, [role |-> "assistant", content |-> fullContent, id |-> id])

\* the outer catch: remove the last turn when it is a user turn
RollbackLastUser(h) ==
    IF Len(h) > 0 /\ h[Len(h)].role = "user" THEN pop(h) ELSE h

\* the !response.ok branch: chatHistory.pop(), then the throw lands in the
\* outer catch, which rolls back again
HttpErrorRollback(h) == RollbackLastUser(pop(h))

\* sanitizePrompt: empty for an empty or invalid message
Messages == {<<>>, <<" ">>, <<"h", "i">>, <<"y", "o">>}
InvalidMessages == {<<>>, <<" ">>}
sanitizePrompt(m) == IF m \in InvalidMessages THEN <<>> ELSE m

(***************************************************************************)
(* Model registries and the selected model                                 *)
(***************************************************************************)
IMAGE_GENERATION_MODELS ==
    {"black-forest-labs/flux.2-pro", "black-forest-labs/flux.2-flex",
     "google/gemini-3-pro-image-preview", "openai/gpt-5-image-mini",
     "openai/gpt-5-image", "google/gemini-2.5-flash-image"}

CHAT_MODELS ==
    {"anthropic/claude-sonnet-4.5", "anthropic/claude-opus-4.5",
     "anthropic/claude-haiku-4.5", "openai/gpt-5.1", "openai/gpt-5.1-chat",
     "openai/gpt-5-image-mini", "openai/gpt-4.1", "x-ai/grok-4.1-fast",
     "google/gemini-3-pro-preview", "google/gemini-2.5-pro",
     "google/gemini-2.5-flash", "google/gemini-2.5-flash-lite-preview-09-2025"}

\* the optional model argument: null, an image model, a chat model, an id of
\* no registry
NoModel == "null"
ModelArgs == {NoModel, "openai/gpt-5-image", "openai/gpt-4.1", "acme/unlisted"}

\* the ids the setters can be called with: those, and a name that every object
\* literal inherits from Object.prototype
ModelIds == ModelArgs \cup {"constructor"}

\* the names a registry inherits (the registries are object literals)
ObjectPrototype == {"constructor", "toString", "hasOwnProperty"}

\* REGISTRY[modelId] is truthy: an own key, or an inherited name
Lookup(registry, modelId) == modelId \in registry \cup ObjectPrototype

\* const selectedModel = model || current...Model (the registry is not consulted)
SelectedModel(model, current, registry) ==
    IF model # NoModel THEN model ELSE current

(***************************************************************************)
(* Error messages, as sequences of words, and the outer catch              *)
(***************************************************************************)
RateLimitExceeded == <<"Rate limit", "exceeded.", "Please wait">>
InvalidPrompt == <<"Invalid prompt provided">>
InvalidMessage == <<"Invalid message provided">>
FailedToFetch == <<"Failed to fetch">>
UnexpectedToken == <<"Unexpected token">>
StreamError == <<"Stream error">>
ImageTooLarge == <<"Image too large">>

\* errorData.error of a non-2xx response
UpstreamErrors == {<<"Provider returned error">>, <<"upstream", "RATE LIMIT", "hit">>}
OneError == {<<"Provider returned error">>}

\* errorData.error || `API request failed with status ${response.status}`
HttpErrorMessage(text) ==
    IF text = <<>> THEN <<"API request failed with status">> ELSE text

\* String.prototype.toLowerCase, word by word
toLowerCase(msg) ==
    [i \in 1..Len(msg) |->
        IF msg[i] \in {"Rate limit", "RATE LIMIT"} THEN "rate limit" ELSE msg[i]]

\* String.prototype.includes
includes(msg, word) == \E i \in 1..Len(msg) : msg[i] = word

\* getUserFriendlyError: the normalized, user-presentable messages
FriendlyMessages ==
    {<<"Network error.", "Check your connection">>,
     <<"The image is too large">>,
     <<"Something went wrong.", "Please try again">>}

getUserFriendlyError(msg) ==
    IF msg = FailedToFetch THEN <<"Network error.", "Check your connection">>
    ELSE IF msg = ImageTooLarge THEN <<"The image is too large">>
    ELSE <<"Something went wrong.", "Please try again">>

\* catch (error): a message with 'rate limit' in it is rethrown as it is, any
\* other is replaced by getUserFriendlyError(error)
Caught(msg) ==
    IF includes(toLowerCase(msg), "rate limit") THEN msg
    ELSE getUserFriendlyError(msg)

(***************************************************************************)
(* Stream bodies the proxy can send                                        *)
(***************************************************************************)
DataLine(payload) == DataPrefix \o payload

BlankLine == <<>>
CommentLine == <<":", " ", "k">>
ContentA == DataLine(<<"{", "c:a", "}">>)
ContentB == DataLine(<<"{", "c:b", "}", "\r">>)
NoContent == DataLine(<<"{", "c:", "}">>)
Malformed == DataLine(<<"{", "c:a">>)
DoneLine == DataLine(DoneSentinel)
ErrorNoMessage == DataLine(<<"{", "e", "}">>)
ErrorWithMessage == DataLine(<<"{", "e:boom", "}">>)
ErrorStreamError == DataLine(<<"{", "c:a", "e:Stream error", "}">>)

AllLines ==
    {BlankLine, CommentLine, ContentA, ContentB, NoContent, Malformed, DoneLine,
     ErrorNoMessage, ErrorWithMessage, ErrorStreamError}

\* every body of at most n newline-terminated lines
RECURSIVE Bodies(_, _)
Bodies(lines, n) ==
    IF n = 0 THEN {<<>>}
    ELSE LET S == Bodies(lines, n - 1) IN
         S \cup {t \o l \o <<NL>> : t \in S, l \in lines}

\* the bodies of the decoder specification; a body may end in a line that
\* the server never terminated
KeepAliveBody ==
    CommentLine \o <<NL>> \o BlankLine \o <<NL>> \o Malformed \o <<NL>>
        \o ContentA \o <<NL>> \o BlankLine \o <<NL>> \o ContentB \o <<NL>>

StreamBodies ==
    LET S == Bodies(AllLines, MaxLines) IN
    S \cup {t \o ContentA : t \in S} \cup {KeepAliveBody}

\* the bodies of the conversation specifications
ChatBodies == {<<>>, ContentA \o <<NL>>, ErrorNoMessage \o <<NL>>}

\* with a body of two increments, for sequential invocations
SeqBodies == ChatBodies \cup {ContentA \o <<NL>> \o ContentB \o <<NL>>}

(***************************************************************************)
(* sendChatMessage, one action per step between two awaits                 *)
(***************************************************************************)
\* an invocation: its position, its locals, and history fields: the number
\* of the invocation (id), chatHistory when it was invoked (pre), the body
\* its response carries (text) and how much of it has arrived (pos), the
\* fetches it issued, why it rejected (cause), whether a chunk ended
\* inside a data line (cut); the model id of its request, the message of
\* the error it threw; the local sanitizedMessage, and the value it returned
IdleCall ==
    [pc |-> "idle", id |-> 0, pre |-> <<>>, text |-> <<>>, pos |-> 0,
     dec |-> NewDecoder, locked |-> FALSE, fetches |-> 0, cause |-> "none",
     cut |-> FALSE, model |-> NoModel, error |-> <<>>,
     sanitizedMessage |-> <<>>, returned |-> <<>>]

Settled == {"idle", "resolved", "rejected"}

Started == [IdleCall EXCEPT !.id = sends + 1, !.pre = chatHistory]

\* a slip: the lock is released on the success path only, not in a finally
releaseLock_Skipped(call) == call

\* finally { reader.releaseLock() }
releaseLock(call) == [call EXCEPT !.locked = FALSE]

\* the promise rejects with an Error of message msg
Reject(call, why, msg) ==
    [call EXCEPT !.pc = "rejected", !.cause = why, !.error = msg]

\* checkRateLimit throws: the call rejects before anything else happens
SendRateLimited(c, m) ==
    /\ calls[c].pc \in Settled
    /\ sends < MaxSends
    /\ ~checkRateLimit(requests, now).passes
    /\ requests' = checkRateLimit(requests, now).window
    /\ sends' = sends + 1
    /\ calls' = [calls EXCEPT ![c] = Reject(Started, "ratelimit", RateLimitExceeded)]
    /\ UNCHANGED <<now, ticks, chatHistory, admitted, ops, recorded, models, proxy, ui>>

\* a slip: the user turn is pushed before the message is validated
SendInvalid_PushesFirst(c, m) ==
    /\ calls[c].pc \in Settled
    /\ sends < MaxSends
    /\ checkRateLimit(requests, now).passes
    /\ sanitizePrompt(m) = <<>>
    /\ requests' = checkRateLimit(requests, now).window
    /\ admitted' = Admit(admitted, now)
    /\ sends' = sends + 1
    /\ chatHistory' = PushUser(chatHistory, sanitizePrompt(m), sends + 1)
    /\ calls' = [calls EXCEPT ![c] = Reject(Started, "invalid", InvalidMessage)]
    /\ UNCHANGED <<now, ticks, ops, recorded, models, proxy, ui>>

\* sanitizePrompt returns an empty message: 'Invalid message provided'
SendInvalid(c, m) ==
    /\ calls[c].pc \in Settled
    /\ sends < MaxSends
    /\ checkRateLimit(requests, now).passes
    /\ sanitizePrompt(m) = <<>>
    /\ requests' = checkRateLimit(requests, now).window
    /\ admitted' = Admit(admitted, now)
    /\ sends' = sends + 1
    /\ calls' = [calls EXCEPT ![c] = Reject(Started, "invalid", InvalidMessage)]
    /\ UNCHANGED <<now, ticks, chatHistory, ops, recorded, models, proxy, ui>>

\* the gate and the validation pass: push the user turn, issue the fetch
SendChatMessage(c, m, onChunk, model) ==
    /\ calls[c].pc \in Settled
    /\ sends < MaxSends
    /\ checkRateLimit(requests, now).passes
    /\ sanitizePrompt(m) # <<>>
    /\ requests' = checkRateLimit(requests, now).window
    /\ admitted' = Admit(admitted, now)
    /\ sends' = sends + 1
    /\ chatHistory' = PushUser(chatHistory, sanitizePrompt(m), sends + 1)
    /\ calls' = [calls EXCEPT ![c] =
          [Started EXCEPT !.pc = "fetch", !.fetches = 1,
                          !.sanitizedMessage = sanitizePrompt(m),
                          !.dec = [NewDecoder EXCEPT !.onChunk = onChunk],
                          !.model = SelectedModel(model, currentChatModel, CHAT_MODELS)]]
    /\ UNCHANGED <<now, ticks, ops, recorded, models, proxy, ui>>

\* await fetch(...) rejects (network failure)
FetchRejects(c) ==
    /\ calls[c].pc = "fetch"
    /\ chatHistory' = RollbackLastUser(chatHistory)
    /\ calls' = [calls EXCEPT ![c] = Reject(@, "network", Caught(FailedToFetch))]
    /\ UNCHANGED <<now, ticks, requests, sends, admitted, ops, recorded, models, proxy, ui>>

\* the response is not ok: await response.json()
ResponseNotOk(c) ==
    /\ calls[c].pc = "fetch"
    /\ calls' = [calls EXCEPT ![c].pc = "errbody"]
    /\ UNCHANGED <<now, ticks, requests, chatHistory, sends, admitted, ops, recorded, models, proxy, ui>>

\* the error body parsed: pop, throw errorData.error, and the outer catch
ErrorBodyParsed(c, text) ==
    /\ calls[c].pc = "errbody"
    /\ chatHistory' = HttpErrorRollback(chatHistory)
    /\ calls' = [calls EXCEPT ![c] = Reject(@, "http", Caught(HttpErrorMessage(text)))]
    /\ UNCHANGED <<now, ticks, requests, sends, admitted, ops, recorded, models, proxy, ui>>

\* the error body is not JSON: response.json() rejects into the outer catch
ErrorBodyRejects(c) ==
    /\ calls[c].pc = "errbody"
    /\ chatHistory' = RollbackLastUser(chatHistory)
    /\ calls' = [calls EXCEPT ![c] = Reject(@, "httpbody", Caught(UnexpectedToken))]
    /\ UNCHANGED <<now, ticks, requests, sends, admitted, ops, recorded, models, proxy, ui>>

\* the response is ok: getReader() locks the body; text is what it will carry
ResponseOk(c, text) ==
    /\ calls[c].pc = "fetch"
    /\ calls' = [calls EXCEPT ![c].pc = "read", ![c].text = text, ![c].locked = TRUE]
    /\ UNCHANGED <<now, ticks, requests, chatHistory, sends, admitted, ops, recorded, models, proxy, ui>>

\* a chunk ended inside a data line: its head waits in the buffer
CutsDataLine(buffer) == Len(buffer) > Len(DataPrefix) /\ startsWith(buffer, DataPrefix)

\* the next n tokens of the body
NextChunk(call, n) == SubSeq(call.text, call.pos + 1, call.pos + n)

\* reader.read() yields a chunk and every complete line of the buffer decodes
ReadChunk(c, n) ==
    /\ calls[c].pc = "read"
    /\ n \in 1..(Len(calls[c].text) - calls[c].pos)
    /\ LET dec == OnChunkRead(calls[c].dec, NextChunk(calls[c], n)) IN
       /\ ~dec.thrown
       /\ calls' = [calls EXCEPT ![c].dec = dec, ![c].pos = @ + n,
                                  ![c].cut = @ \/ CutsDataLine(dec.buffer)]
    /\ UNCHANGED <<now, ticks, requests, chatHistory, sends, admitted, ops, recorded, models, proxy, ui>>

\* reader.read() yields a chunk and a line throws 'Stream error':
\* finally releaseLock, then the outer catch
ReadChunkThrows(c, n) ==
    /\ calls[c].pc = "read"
    /\ n \in 1..(Len(calls[c].text) - calls[c].pos)
    /\ LET dec == OnChunkRead(calls[c].dec, NextChunk(calls[c], n)) IN
       /\ dec.thrown
       /\ calls' = [calls EXCEPT
             ![c] = Reject(releaseLock([@ EXCEPT !.dec = dec, !.pos = @ + n]), "stream",
                          Caught(StreamError))]
    /\ chatHistory' = RollbackLastUser(chatHistory)
    /\ UNCHANGED <<now, ticks, requests, sends, admitted, ops, recorded, models, proxy, ui>>

\* return fullContent || 'No response received'
NoResponseReceived == <<"No response received">>
ReturnValue(fullContent) ==
    IF fullContent = <<>> THEN NoResponseReceived ELSE fullContent

\* a slip: done is not acted on while the buffer holds an unfinished line
ReadDone_WaitsForNewline(c) ==
    /\ calls[c].pc = "read"
    /\ calls[c].pos = Len(calls[c].text)
    /\ calls[c].dec.buffer = <<>>
    /\ chatHistory' = PushAssistant(chatHistory, calls[c].dec.fullContent, calls[c].id)
    /\ calls' = [calls EXCEPT ![c] =
          [releaseLock(@) EXCEPT !.pc = "resolved",
                                 !.returned = ReturnValue(calls[c].dec.fullContent)]]
    /\ UNCHANGED <<now, ticks, requests, sends, admitted, ops, recorded, models, proxy, ui>>

\* reader.read() reports done: releaseLock, push the assistant turn, return
ReadDone(c) ==
    /\ calls[c].pc = "read"
    /\ calls[c].pos = Len(calls[c].text)
    /\ chatHistory' = PushAssistant(chatHistory, calls[c].dec.fullContent, calls[c].id)
    /\ calls' = [calls EXCEPT ![c] =
          [releaseLock(@) EXCEPT !.pc = "resolved",
                                 !.returned = ReturnValue(calls[c].dec.fullContent)]]
    /\ UNCHANGED <<now, ticks, requests, sends, admitted, ops, recorded, models, proxy, ui>>

\* reader.read() rejects (abort, connection lost): finally, then the outer catch
ReadRejects(c) ==
    /\ calls[c].pc = "read"
    /\ chatHistory' = RollbackLastUser(chatHistory)
    /\ calls' = [calls EXCEPT ![c] = Reject(releaseLock(@), "read", Caught(FailedToFetch))]
    /\ UNCHANGED <<now, ticks, requests, sends, admitted, ops, recorded, models, proxy, ui>>

\* clearChatHistory: chatHistory = [], whatever is in flight
clearChatHistory ==
    /\ chatHistory' = <<>>
    /\ UNCHANGED <<now, ticks, requests, calls, sends, admitted, ops, recorded, models, proxy, ui>>

(***************************************************************************)
(* Image preparation (prepareImageForUpload): an image is its encoded size *)
(* and its format; re-encoding is lossy, halves the size at each step of   *)
(* the schedule and normalizes the format                                  *)
(***************************************************************************)
MaxBytes == 4        \* the byte ceiling
FloorStep == 2       \* the last step of the schedule: minimum quality and size

NoImage == [bytes |-> 0, mime |-> "none"]
OneImage == {[bytes |-> 3, mime |-> "png"]}
Images == {[bytes |-> n, mime |-> "png"] : n \in {3, 5, 16, 20}}

encodedSize(img) == img.bytes

\* one step of the schedule: lower quality and/or smaller dimensions
ReEncode(img) == [bytes |-> (img.bytes + 1) \div 2, mime |-> "jpeg"]

RECURSIVE Compress(_, _)
Compress(img, step) ==
    IF encodedSize(img) <= MaxBytes THEN [ok |-> TRUE, image |-> img]
    ELSE IF step >= FloorStep THEN [ok |-> FALSE, image |-> img]
    ELSE Compress(ReEncode(img), step + 1)

\* a slip: the image is re-encoded once before its size is looked at
prepareImageForUpload_Always(img) == Compress(ReEncode(img), 1)

\* within the ceiling: unchanged; else re-encode down the schedule, and fail
\* with ImageTooLarge when the floor is reached above the ceiling
prepareImageForUpload(img) == Compress(img, 0)

(***************************************************************************)
(* analyzeImage, editImage, enhancePromptWithAI, generateImage: the gate,  *)
(* the validation, the image preparation where there is one, one fetch,    *)
(* and the outcome handed to the caller                                    *)
(***************************************************************************)
Ops == {"analyzeImage", "editImage", "enhancePromptWithAI", "generateImage"}

\* an invocation: its position, the fetches it issued, the model id and the
\* image of its request body, the message of the error it threw, and the
\* steps it has run, in order (history only)
IdleOp ==
    [pc |-> "idle", fetches |-> 0, model |-> NoModel, image |-> NoImage,
     error |-> <<>>, steps |-> <<>>]

\* the images an operation can be called with
ImagesOf(o, images) ==
    IF o = "generateImage" THEN {NoImage}
    ELSE IF o = "enhancePromptWithAI" THEN images \cup {NoImage}
    ELSE images

\* the operation awaits prepareImageForUpload before its fetch
PreparesImage(o, img) ==
    o \in {"analyzeImage", "editImage"} \/ (o = "enhancePromptWithAI" /\ img # NoImage)

\* the model id of the request body; analyzeImage and enhancePromptWithAI send none
OpModel(o, model) ==
    IF o = "editImage"
    THEN SelectedModel(model, currentEditModel, IMAGE_GENERATION_MODELS)
    ELSE IF o = "generateImage"
    THEN SelectedModel(model, currentGenerationModel, IMAGE_GENERATION_MODELS)
    ELSE NoModel

\* a slip: the request body carries the image as it was given
RequestImage_Original(original, prepared) == original

\* image: preparedImage
RequestImage(original, prepared) == prepared

\* 'No edited image found in the API response' and its likes
NoResult(o) ==
    IF o = "editImage" THEN <<"No edited image found in the API response">>
    ELSE IF o = "generateImage" THEN <<"No generated image found in the API response">>
    ELSE <<"No enhanced prompt found in the API response">>

\* the operation throws an Error of message msg to its caller
OpReject(op, msg) == [op EXCEPT !.pc = "rejected", !.error = msg]

\* the operation has run the steps up to and with step
Ran(op, ss) == [op EXCEPT !.steps = @ \o ss]

\* checkRateLimit throws
OpRateLimited(o) ==
    /\ ops[o].pc = "idle"
    /\ ~checkRateLimit(requests, now).passes
    /\ requests' = checkRateLimit(requests, now).window
    /\ ops' = [ops EXCEPT ![o] = OpReject(Ran(IdleOp, <<"gate">>), RateLimitExceeded)]
    /\ UNCHANGED <<now, ticks, chatHistory, calls, sends, admitted, recorded, models, proxy, ui>>

\* sanitizePrompt returns an empty prompt: 'Invalid prompt provided'
OpInvalid(o, m) ==
    /\ ops[o].pc = "idle"
    /\ Len(admitted) < MaxOps
    /\ checkRateLimit(requests, now).passes
    /\ sanitizePrompt(m) = <<>>
    /\ requests' = checkRateLimit(requests, now).window
    /\ admitted' = Admit(admitted, now)
    /\ ops' = [ops EXCEPT ![o] =
          OpReject(Ran(IdleOp, <<"gate", "validate">>), InvalidPrompt)]
    /\ UNCHANGED <<now, ticks, chatHistory, calls, sends, recorded, models, proxy, ui>>

\* the gate and the validation pass: prepare the image, or fetch at once
OpStart(o, m, model, img) ==
    /\ ops[o].pc = "idle"
    /\ Len(admitted) < MaxOps
    /\ checkRateLimit(requests, now).passes
    /\ sanitizePrompt(m) # <<>>
    /\ requests' = checkRateLimit(requests, now).window
    /\ admitted' = Admit(admitted, now)
    /\ ops' = [ops EXCEPT ![o] =
          IF PreparesImage(o, img)
          THEN [Ran(IdleOp, <<"gate", "validate", "prepare">>)
                   EXCEPT !.pc = "prepare", !.model = OpModel(o, model), !.image = img]
          ELSE [Ran(IdleOp, <<"gate", "validate", "fetch">>)
                   EXCEPT !.pc = "fetch", !.model = OpModel(o, model), !.fetches = 1]]
    /\ UNCHANGED <<now, ticks, chatHistory, calls, sends, recorded, models, proxy, ui>>

\* prepareImageForUpload resolves: the fetch is issued with the prepared image
OpPrepared(o) ==
    /\ ops[o].pc = "prepare"
    /\ prepareImageForUpload(ops[o].image).ok
    /\ ops' = [ops EXCEPT
          ![o].pc = "fetch",
          ![o].fetches = @ + 1,
          ![o].steps = Append(@, "fetch"),
          ![o].image = RequestImage(@, prepareImageForUpload(@).image)]
    /\ UNCHANGED <<now, ticks, requests, chatHistory, calls, sends, admitted, recorded, models, proxy, ui>>

\* a slip: the original image is sent when the preparation fails
OpPrepareFails_SendsAnyway(o) ==
    /\ ops[o].pc = "prepare"
    /\ ~prepareImageForUpload(ops[o].image).ok
    /\ ops' = [ops EXCEPT ![o].pc = "fetch", ![o].fetches = @ + 1,
                           ![o].steps = Append(@, "fetch")]
    /\ UNCHANGED <<now, ticks, requests, chatHistory, calls, sends, admitted, recorded, models, proxy, ui>>

\* prepareImageForUpload rejects: the catch
OpPrepareFails(o) ==
    /\ ops[o].pc = "prepare"
    /\ ~prepareImageForUpload(ops[o].image).ok
    /\ ops' = [ops EXCEPT ![o] = OpReject(@, Caught(ImageTooLarge))]
    /\ UNCHANGED <<now, ticks, requests, chatHistory, calls, sends, admitted, recorded, models, proxy, ui>>

\* a slip: the failed fetch is issued again
OpFetchRejects_Retries(o) ==
    /\ ops[o].pc = "fetch"
    /\ ops' = [ops EXCEPT ![o].fetches = @ + 1]
    /\ UNCHANGED <<now, ticks, requests, chatHistory, calls, sends, admitted, recorded, models, proxy, ui>>

\* await fetch(...) rejects (network failure): the catch
OpFetchRejects(o) ==
    /\ ops[o].pc = "fetch"
    /\ ops' = [ops EXCEPT ![o] = OpReject(@, Caught(FailedToFetch))]
    /\ UNCHANGED <<now, ticks, requests, chatHistory, calls, sends, admitted, recorded, models, proxy, ui>>

\* the response is not ok: throw errorData.error, and the catch
OpHttpError(o, text) ==
    /\ ops[o].pc = "fetch"
    /\ ops' = [ops EXCEPT ![o] = OpReject(@, Caught(HttpErrorMessage(text)))]
    /\ UNCHANGED <<now, ticks, requests, chatHistory, calls, sends, admitted, recorded, models, proxy, ui>>

\* the body of the response is not JSON: response.json() rejects, and the catch
OpBodyRejects(o) ==
    /\ ops[o].pc = "fetch"
    /\ ops' = [ops EXCEPT ![o] = OpReject(@, Caught(UnexpectedToken))]
    /\ UNCHANGED <<now, ticks, requests, chatHistory, calls, sends, admitted, recorded, models, proxy, ui>>

\* the response is ok and carries no image or prompt: throw, and the catch
OpNoResult(o) ==
    /\ ops[o].pc = "fetch"
    /\ o # "analyzeImage"
    /\ ops' = [ops EXCEPT ![o] = OpReject(@, Caught(NoResult(o)))]
    /\ UNCHANGED <<now, ticks, requests, chatHistory, calls, sends, admitted, recorded, models, proxy, ui>>

\* the response is ok and carries the result: return it
OpResolves(o) ==
    /\ ops[o].pc = "fetch"
    /\ ops' = [ops EXCEPT ![o].pc = "resolved"]
    /\ UNCHANGED <<now, ticks, requests, chatHistory, calls, sends, admitted, recorded, models, proxy, ui>>

\* the fetch settles: the operation returns or throws
OpSettles(o, texts) ==
    \/ OpFetchRejects(o)
    \/ \E text \in texts : OpHttpError(o, text)
    \/ OpBodyRejects(o)
    \/ OpNoResult(o)
    \/ OpResolves(o)

\* the caller has taken the result or the error: the invocation is over
OpHandled(o) ==
    /\ ops[o].pc \in {"resolved", "rejected"}
    /\ ops' = [ops EXCEPT ![o] = IdleOp]
    /\ UNCHANGED <<now, ticks, requests, chatHistory, calls, sends, admitted, recorded, models, proxy, ui>>

(***************************************************************************)
(* setGenerationModel, setEditModel, setChatModel                          *)
(***************************************************************************)
setGenerationModel(modelId) ==
    /\ currentGenerationModel' =
          IF Lookup(IMAGE_GENERATION_MODELS, modelId) THEN modelId
          ELSE currentGenerationModel
    /\ UNCHANGED <<now, ticks, requests, chatHistory, calls, sends, admitted, ops,
                   recorded, currentEditModel, currentChatModel, proxy, ui>>

setEditModel(modelId) ==
    /\ currentEditModel' =
          IF Lookup(IMAGE_GENERATION_MODELS, modelId) THEN modelId ELSE currentEditModel
    /\ UNCHANGED <<now, ticks, requests, chatHistory, calls, sends, admitted, ops,
                   recorded, currentGenerationModel, currentChatModel, proxy, ui>>

setChatModel(modelId) ==
    /\ currentChatModel' =
          IF Lookup(CHAT_MODELS, modelId) THEN modelId ELSE currentChatModel
    /\ UNCHANGED <<now, ticks, requests, chatHistory, calls, sends, admitted, ops,
                   recorded, currentGenerationModel, currentEditModel, proxy, ui>>

(***************************************************************************)
(* The proxy handlers: src/api/chat.js, src/api/edit.js, src/api/enhance.js *)
(***************************************************************************)
Handlers == {"chat", "edit", "enhance"}

\* JavaScript values of the fields of a request body
Undefined == [type |-> "undefined", text |-> <<>>]
Str(t) == [type |-> "string", text |-> t]
Num == [type |-> "number", text |-> <<"42">>]

\* !v
Falsy(v) == v.type = "undefined" \/ (v.type = "string" /\ v.text = <<>>)

\* the messages field: undefined, not an array, or an array of turns
NoMessages == [type |-> "undefined", items |-> <<>>]
NotAnArray == [type |-> "string", items |-> <<>>]
Arr(items) == [type |-> "array", items |-> items]

\* req.body; present is FALSE when the request came without a body
\* (req.body is undefined)
NoBody ==
    [present |-> FALSE, prompt |-> Undefined, image |-> Undefined,
     model |-> Undefined, messages |-> NoMessages, stream |-> TRUE]

DataImage == Str(<<"data:image/", "png;base64,", "AAAA">>)
HttpImage == Str(<<"http://", "x.png">>)

PromptValues == {Undefined, Num, Str(<<>>), Str(<<" ">>), Str(<<"h", "i">>)}
ImageValues == {Undefined, HttpImage, DataImage}
ModelValues == {Undefined, Num, Str(<<"openai/gpt-4.1">>), Str(<<"openai/gpt-5-image">>)}
MessagesValues ==
    {NoMessages, NotAnArray, Arr(<<>>),
     Arr(<<[role |-> "user", content |-> Str(<<" ">>)]>>),
     Arr(<<[role |-> "user", content |-> Num]>>),
     Arr(<<[role |-> "user", content |-> Str(<<"h", "i">>)]>>),
     Arr(<<[role |-> "user", content |-> Str(<<"h", "i">>)],
           [role |-> "system", content |-> Str(<<"y", "o">>)]>>)}

\* the bodies a handler can be sent
BodiesOf(h) ==
    {NoBody} \cup
    IF h = "chat"
    THEN {[NoBody EXCEPT !.present = TRUE, !.messages = ms, !.model = md, !.stream = st] :
             ms \in MessagesValues, md \in ModelValues, st \in BOOLEAN}
    ELSE {[NoBody EXCEPT !.present = TRUE, !.prompt = pr, !.image = im, !.model = md] :
             pr \in PromptValues, im \in ImageValues,
             md \in {Undefined, Str(<<"openai/gpt-5-image">>)}}

\* msg.content.replace(/[\x00-\x1F\x7F]/g, '').substring(0, 10000).trim(), '' for
\* a content that is not a string
SanitizedContent(v) ==
    IF v.type = "string"
    THEN trim(SelectSeq(v.text, LAMBDA ch : ch \notin {"\t", "\r", NL}))
    ELSE <<>>

\* messages.map(...).filter(msg => msg.content.length > 0)
sanitizedMessages(items) ==
    SelectSeq([i \in 1..Len(items) |->
                  [role |-> IF items[i].role = "user" THEN "user" ELSE "assistant",
                   content |-> SanitizedContent(items[i].content)]],
              LAMBDA msg : Len(msg.content) > 0)

\* the validation of the body: the error it answers with, "" when it passes
Validate(h, body) ==
    IF h = "chat"
    THEN IF body.messages.type # "array" \/ Len(body.messages.items) = 0
         THEN "Invalid messages provided"
         ELSE IF Falsy(body.model) \/ body.model.type # "string"
         THEN "Invalid model provided"
         ELSE IF Len(sanitizedMessages(body.messages.items)) = 0
         THEN "No valid messages provided"
         ELSE ""
    ELSE IF Falsy(body.prompt) \/ body.prompt.type # "string" \/ trim(body.prompt.text) = <<>>
         THEN "Invalid prompt provided"
         ELSE IF h = "edit" /\ (\/ Falsy(body.image)
                                \/ body.image.type # "string"
                                \/ ~startsWith(body.image.text, <<"data:image/">>))
         THEN "Invalid image provided"
         ELSE ""

\* the message of the handler's outer catch
FailureMessage(h) ==
    IF h = "chat" THEN "Failed to process chat message"
    ELSE IF h = "edit" THEN "Failed to edit image"
    ELSE "Failed to enhance prompt"

\* a slip: the edit handler forwards the model of the request body
UpstreamModel_FromBody(h, body) ==
    IF body.model.type = "string" /\ body.model.text # <<>> THEN body.model.text[1]
    ELSE IF h = "edit" THEN "openai/gpt-5-image-mini"
    ELSE "openrouter/bert-nebulon-alpha"

\* the model named in the upstream request
UpstreamModel(h, body) ==
    IF h = "chat" THEN body.model.text[1]
    ELSE IF h = "edit" THEN "openai/gpt-5-image-mini"
    ELSE "openrouter/bert-nebulon-alpha"

\* an invocation: the handler, its request (method, whether the environment
\* has OPENROUTER_API_KEY, body), its position, the status and error of its
\* response, the upstream calls it made and the model they named; what it has
\* called on res, in order (out); the body of the upstream response (text), how
\* much of it was read (pos) and written to res (written), and whether a read
\* of it rejected (failed)
IdleProxy ==
    [handler |-> "none", pc |-> "idle", method |-> "POST", apiKey |-> TRUE,
     body |-> NoBody, status |-> 0, error |-> "", upstream |-> 0, model |-> "",
     out |-> <<>>, text |-> <<>>, pos |-> 0, written |-> <<>>, failed |-> FALSE]

\* res.status(status).json({ error })
Respond(p, status, error) ==
    [p EXCEPT !.pc = "done", !.status = status, !.error = error,
              !.out = Append(@, "json")]

\* the handler up to its first await: the method, the key, the body, and the
\* upstream fetch when all three pass
handler(h, method, apiKey, body) ==
    LET p == [IdleProxy EXCEPT !.handler = h, !.method = method, !.apiKey = apiKey,
                               !.body = body]
    IN IF method # "POST" THEN Respond(p, 405, "Method not allowed")
       ELSE IF ~apiKey THEN Respond(p, 500, "Server configuration error")
       ELSE IF ~body.present THEN Respond(p, 500, FailureMessage(h))
       ELSE IF Validate(h, body) # "" THEN Respond(p, 400, Validate(h, body))
       ELSE [p EXCEPT !.pc = "upstream", !.upstream = 1, !.model = UpstreamModel(h, body)]

\* the body that editImage sends with its fetch
ClientBodies(h) ==
    IF h = "edit" /\ ops["editImage"].pc = "fetch"
    THEN {[NoBody EXCEPT !.present = TRUE, !.prompt = Str(<<"h", "i">>),
                         !.image = DataImage,
                         !.model = Str(<<ops["editImage"].model>>)]}
    ELSE {}

\* a request arrives (handler invocations share no state: one is followed)
ProxyRequest(h, method, apiKey, body) ==
    /\ proxy.pc = "idle"
    /\ proxy' = handler(h, method, apiKey, body)
    /\ UNCHANGED <<now, ticks, requests, chatHistory, calls, sends, admitted, ops, recorded, models, ui>>

\* the upstream fetch rejects: the outer catch
ProxyUpstreamRejects ==
    /\ proxy.pc = "upstream"
    /\ proxy' = Respond(proxy, 500, FailureMessage(proxy.handler))
    /\ UNCHANGED <<now, ticks, requests, chatHistory, calls, sends, admitted, ops, recorded, models, ui>>

\* the upstream response is not ok: its status and its error message are passed on
ProxyUpstreamNotOk(status, text) ==
    /\ proxy.pc = "upstream"
    /\ proxy' = Respond(proxy, status,
                        IF text = "" THEN "API request failed with status" ELSE text)
    /\ UNCHANGED <<now, ticks, requests, chatHistory, calls, sends, admitted, ops, recorded, models, ui>>

\* the body of an upstream response that is to be parsed is not JSON:
\* response.json() rejects into the outer catch
ProxyBodyRejects ==
    /\ proxy.pc = "upstream"
    /\ proxy' = Respond(proxy, 500, FailureMessage(proxy.handler))
    /\ UNCHANGED <<now, ticks, requests, chatHistory, calls, sends, admitted, ops, recorded, models, ui>>

\* the bodies of an upstream stream
UpstreamBodies == {<<>>, ContentA \o <<NL>>}

\* the upstream response is ok: its JSON is passed on, or the headers are set
\* and its body, text, is about to be piped
ProxyUpstreamOk(text) ==
    /\ proxy.pc = "upstream"
    /\ proxy' = IF proxy.handler = "chat" /\ proxy.body.stream
                THEN [proxy EXCEPT !.pc = "stream", !.status = 200, !.text = text,
                                   !.out = Append(@, "setHeader")]
                ELSE Respond(proxy, 200, "")
    /\ UNCHANGED <<now, ticks, requests, chatHistory, calls, sends, admitted, ops, recorded, models, ui>>

\* reader.read() yields a chunk: res.write(chunk)
ProxyStreamChunk(n) ==
    /\ proxy.pc = "stream"
    /\ n \in 1..(Len(proxy.text) - proxy.pos)
    /\ proxy' = [proxy EXCEPT !.pos = @ + n,
                              !.written = @ \o SubSeq(proxy.text, proxy.pos + 1, proxy.pos + n),
                              !.out = Append(@, "write")]
    /\ UNCHANGED <<now, ticks, requests, chatHistory, calls, sends, admitted, ops, recorded, models, ui>>

\* a slip: a failed read is not caught where the stream is piped, and the outer
\* catch answers it after the finally
ProxyStreamFails_AnswersJson ==
    /\ proxy.pc = "stream"
    /\ proxy' = Respond([proxy EXCEPT !.failed = TRUE, !.out = Append(@, "end")],
                        500, FailureMessage(proxy.handler))
    /\ UNCHANGED <<now, ticks, requests, chatHistory, calls, sends, admitted, ops, recorded, models, ui>>

\* reader.read() rejects: catch (streamError) logs it, finally res.end()
ProxyStreamFails ==
    /\ proxy.pc = "stream"
    /\ proxy' = [proxy EXCEPT !.pc = "done", !.failed = TRUE, !.out = Append(@, "end")]
    /\ UNCHANGED <<now, ticks, requests, chatHistory, calls, sends, admitted, ops, recorded, models, ui>>

\* reader.read() reports done: break, finally res.end()
ProxyStreamEnds ==
    /\ proxy.pc = "stream"
    /\ proxy.pos = Len(proxy.text)
    /\ proxy' = [proxy EXCEPT !.pc = "done", !.out = Append(@, "end")]
    /\ UNCHANGED <<now, ticks, requests, chatHistory, calls, sends, admitted, ops, recorded, models, ui>>

(***************************************************************************)
(* sendChatMessage against the chat handler: the request of the call is    *)
(* the request of the handler, and what the handler writes is the body     *)
(* the call reads                                                          *)
(***************************************************************************)
\* JSON.stringify({messages: chatHistory, model: selectedModel, stream: true, ...})
ChatRequestBody(call) ==
    [NoBody EXCEPT
        !.present = TRUE,
        !.messages = Arr([i \in 1..Len(chatHistory) |->
                            [role |-> chatHistory[i].role,
                             content |-> Str(chatHistory[i].content)]]),
        !.model = Str(<<IF call.model = NoModel THEN currentChatModel ELSE call.model>>),
        !.stream = TRUE]

\* the fetch of the call reaches the handler
PipeRequest(c) ==
    /\ calls[c].pc = "fetch"
    /\ ProxyRequest("chat", "POST", TRUE, ChatRequestBody(calls[c]))

\* the handler has sent a json response of an error status
PipeResponseNotOk(c) ==
    /\ proxy.pc = "done"
    /\ proxy.out = <<"json">>
    /\ proxy.status >= 400
    /\ ResponseNotOk(c)

\* the error body is the handler's: { error }
PipeErrorBodyParsed(c) ==
    /\ proxy.pc = "done"
    /\ ErrorBodyParsed(c, <<proxy.error>>)

\* the headers of the stream have left the handler (with its first write, or
\* its end): the fetch resolves with an ok response
PipeResponseOk(c) ==
    /\ Len(proxy.out) >= 2
    /\ proxy.out[1] = "setHeader"
    /\ ResponseOk(c, proxy.written)

\* more of what the handler wrote has arrived
PipeArrives(c) ==
    /\ calls[c].pc = "read"
    /\ calls[c].text # proxy.written
    /\ calls' = [calls EXCEPT ![c].text = proxy.written]
    /\ UNCHANGED <<now, ticks, requests, chatHistory, sends, admitted, ops, recorded, models, proxy, ui>>

\* the handler has ended the response and all of it has arrived: done
PipeReadDone(c) ==
    /\ proxy.pc = "done"
    /\ calls[c].text = proxy.written
    /\ ReadDone(c)

(***************************************************************************)
(* The page (src/script.js): the uploaded file, the lazily cached encoding *)
(* of it, and applyAIEdit                                                  *)
(***************************************************************************)
MaxReads == 2        \* file reads in flight at once
MaxEdits == 2        \* edits sent in one behaviour

Null == "null"
Files == {"a.png", "b.png"}

\* fileToBase64(file): the data URL of the file's content
fileToBase64(file) == <<"data:image/", "png;base64,", file>>

\* currentImageFile, currentBase64Image; the calls of getBase64Image that await
\* their file read, each with the file it reads and whether applyAIEdit made it
\* (reads); the images applyAIEdit has passed to editImage, each with the
\* file that was current then (edits, history only)
InitialPage ==
    [currentImageFile |-> Null, currentBase64Image |-> Null, reads |-> <<>>,
     edits |-> <<>>]

\* cleanupPreviousImage: currentBase64Image = null
cleanupPreviousImage(page) == [page EXCEPT !.currentBase64Image = Null]

\* processUploadedFile(file): cleanup, then currentImageFile = file
processUploadedFile(file) ==
    /\ ui' = [cleanupPreviousImage(ui) EXCEPT !.currentImageFile = file]
    /\ UNCHANGED <<now, ticks, requests, chatHistory, calls, sends, admitted, ops, recorded, models, proxy>>

\* removeUploadedImage: cleanup, then currentImageFile = null
removeUploadedImage ==
    /\ ui.currentImageFile # Null
    /\ ui' = [cleanupPreviousImage(ui) EXCEPT !.currentImageFile = Null]
    /\ UNCHANGED <<now, ticks, requests, chatHistory, calls, sends, admitted, ops, recorded, models, proxy>>

\* applyAIEdit with the image that getBase64Image returned: 'Please upload an
\* image first' when there is none, else editImage(base64Image, ...)
applyAIEditWith(page, base64Image) ==
    IF base64Image = Null THEN page
    ELSE [page EXCEPT !.edits = Append(@, [image |-> base64Image,
                                           file |-> page.currentImageFile])]

\* currentBase64Image = await fileToBase64(currentImageFile), when the read
\* of file has completed
CacheRead(page, file) == [page EXCEPT !.currentBase64Image = fileToBase64(file)]

\* getBase64Image is called (by applyAIEdit, or by a click on the image for the
\* lightbox): it starts a file read when nothing is cached and there is a
\* file, else it returns the cache at once
getBase64Image(byEdit) ==
    /\ Len(ui.edits) < MaxEdits
    /\ IF ui.currentBase64Image = Null /\ ui.currentImageFile # Null
       THEN /\ Len(ui.reads) < MaxReads
            /\ ui' = [ui EXCEPT !.reads = Append(@, [file |-> ui.currentImageFile,
                                                     byEdit |-> byEdit])]
       ELSE ui' = IF byEdit THEN applyAIEditWith(ui, ui.currentBase64Image) ELSE ui
    /\ UNCHANGED <<now, ticks, requests, chatHistory, calls, sends, admitted, ops, recorded, models, proxy>>

\* the file read of the call at position i completes: the result is cached and
\* returned to the caller
FileReadCompletes(i) ==
    /\ i \in 1..Len(ui.reads)
    /\ LET read == ui.reads[i]
           rest == SubSeq(ui.reads, 1, i - 1) \o SubSeq(ui.reads, i + 1, Len(ui.reads))
           page == [CacheRead(ui, read.file) EXCEPT !.reads = rest]
       IN ui' = IF read.byEdit THEN applyAIEditWith(page, page.currentBase64Image)
                ELSE page
    /\ UNCHANGED <<now, ticks, requests, chatHistory, calls, sends, admitted, ops, recorded, models, proxy>>

(***************************************************************************)
(* The environment: the clock, and the limiter's record step               *)
(***************************************************************************)
TickSteps == {TimeWindow - 1, TimeWindow + 1}

Tick(d) ==
    /\ ticks < MaxTicks
    /\ now' = now + d
    /\ ticks' = ticks + 1
    /\ UNCHANGED <<requests, chatHistory, calls, sends, admitted, ops, recorded, models, proxy, ui>>

\* the UI asks for the status of the limiter
GetRateLimitStatus ==
    /\ requests' = getRateLimitStatus(requests, now).window
    /\ UNCHANGED <<now, ticks, chatHistory, calls, sends, admitted, ops, recorded, models, proxy, ui>>

RecordAdmission ==
    /\ canMakeRequest(requests, now)
    /\ requests' = recordAdmission(requests, now)
    /\ recorded' = recordAdmission(recorded, now)
    /\ UNCHANGED <<now, ticks, chatHistory, calls, sends, admitted, ops, models, proxy, ui>>

Init ==
    /\ now = 0
    /\ ticks = 0
    /\ requests = <<>>
    /\ chatHistory = <<>>
    /\ calls = [c \in Slots |-> IdleCall]
    /\ sends = 0
    /\ admitted = <<>>
    /\ ops = [o \in Ops |-> IdleOp]
    /\ recorded = <<>>
    /\ currentGenerationModel = "black-forest-labs/flux.2-pro"
    /\ currentEditModel = "openai/gpt-5-image-mini"
    /\ currentChatModel = "anthropic/claude-sonnet-4.5"
    /\ proxy = IdleProxy
    /\ ui = InitialPage

\* the sizes the next chunk of slot c can have: any, or the whole remainder
ChunkSizes(c, whole) ==
    LET left == Len(calls[c].text) - calls[c].pos IN
    IF whole THEN {left} ELSE 1..left

\* the steps of the invocation in slot c once it is past the gate
Exchange(c, bodies, whole, texts) ==
    \/ FetchRejects(c)
    \/ ResponseNotOk(c)
    \/ \E text \in texts : ErrorBodyParsed(c, text)
    \/ ErrorBodyRejects(c)
    \/ \E text \in bodies : ResponseOk(c, text)
    \/ \E n \in ChunkSizes(c, whole) : ReadChunk(c, n)
    \/ \E n \in ChunkSizes(c, whole) : ReadChunkThrows(c, n)
    \/ ReadDone(c)
    \/ ReadRejects(c)

\* the first invocation, over every stream body and every chunking: the decoder
NextStream ==
    \/ \E m \in Messages : sends = 0 /\ SendInvalid(1, m)
    \/ \E m \in Messages : sends = 0 /\ SendChatMessage(1, m, Returns, NoModel)
    \/ Exchange(1, StreamBodies, FALSE, OneError)

SpecStream == Init /\ [][NextStream]_vars

\* when the read that reports the end of the stream has settled, the
\* continuation of its await runs
SpecStreamFair == SpecStream /\ WF_vars(ReadDone(1))

\* a new invocation in slot c
Invoke(c, args) ==
    \/ \E m \in Messages : SendRateLimited(c, m)
    \/ \E m \in Messages : SendInvalid(c, m)
    \/ \E m \in Messages, model \in args : SendChatMessage(c, m, Returns, model)

\* sequential invocations: each starts after the one before it has settled
NextSeq ==
    \/ Invoke(1, {NoModel})
    \/ Exchange(1, SeqBodies, TRUE, OneError)
    \/ RecordAdmission

SpecSeq == Init /\ [][NextSeq]_vars

\* the bodies for every onChunk argument: content, malformed and [DONE] lines
SinkBodies == Bodies({ContentA, ContentB, NoContent, Malformed, DoneLine}, MaxLines)

\* the first invocation, with every onChunk argument
NextSink ==
    \/ \E m \in Messages, onChunk \in OnChunks :
          sends = 0 /\ SendChatMessage(1, m, onChunk, NoModel)
    \/ Exchange(1, SinkBodies, FALSE, OneError)

SpecSink == Init /\ [][NextSink]_vars

\* sequential invocations, and the history cleared at any moment
NextClear ==
    \/ \E m \in Messages : SendInvalid(1, m)
    \/ \E m \in Messages : SendChatMessage(1, m, Returns, NoModel)
    \/ Exchange(1, ChatBodies, TRUE, OneError)
    \/ clearChatHistory

SpecClear == Init /\ [][NextClear]_vars

\* overlapping invocations: a second may start before the first settles
NextConc ==
    \/ \E c \in Slots : Invoke(c, {NoModel})
    \/ \E c \in Slots : Exchange(c, ChatBodies, TRUE, OneError)
    \/ RecordAdmission

SpecConc == Init /\ [][NextConc]_vars

NothingInFlight ==
    /\ \A c \in Slots : calls[c].pc \in Settled
    /\ \A o \in Ops : ops[o].pc = "idle"

\* the steps of operation o, called with a model argument of args and an
\* image of images, and answered on a failure with an error of texts
Operation(o, args, images, texts) ==
    \/ NothingInFlight /\ OpRateLimited(o)
    \/ \E m \in Messages : NothingInFlight /\ OpInvalid(o, m)
    \/ \E m \in Messages, model \in args, img \in ImagesOf(o, images) :
           NothingInFlight /\ OpStart(o, m, model, img)
    \/ OpPrepared(o)
    \/ OpPrepareFails(o)
    \/ OpSettles(o, texts)
    \/ OpHandled(o)

\* the gate of operation o, with the network down
GatedOperation(o) ==
    \/ NothingInFlight /\ OpRateLimited(o)
    \/ \E m \in Messages : NothingInFlight /\ OpInvalid(o, m)
    \/ \E m \in Messages, img \in ImagesOf(o, OneImage) :
           NothingInFlight /\ OpStart(o, m, NoModel, img)
    \/ OpPrepared(o)
    \/ OpFetchRejects(o)
    \/ OpHandled(o)

\* every gated operation (sendChatMessage once), with the network down, one
\* user action at a time, and the clock: the limiter
NextLimiter ==
    \/ \E o \in Ops : GatedOperation(o)
    \/ NothingInFlight /\ sends = 0 /\ Invoke(1, {NoModel})
    \/ FetchRejects(1)
    \/ \E d \in TickSteps : Tick(d)
    \/ GetRateLimitStatus
    \/ RecordAdmission

SpecLimiter == Init /\ [][NextLimiter]_vars

\* every API operation with every argument and every outcome, one user action
\* at a time, and the selection of the models
NextOps ==
    \/ \E o \in Ops :
          /\ sends = 0
          /\ Len(admitted) < MaxCalls \/ ops[o].pc # "idle"
          /\ Operation(o, ModelArgs, Images, UpstreamErrors \cup {<<>>})
    \/ NothingInFlight /\ sends = 0 /\ Invoke(1, ModelArgs)
    \/ Exchange(1, ChatBodies, TRUE, UpstreamErrors \cup {<<>>})
    \/ \E modelId \in ModelArgs : setGenerationModel(modelId)
    \/ \E modelId \in ModelArgs : setEditModel(modelId)
    \/ \E modelId \in ModelArgs : setChatModel(modelId)
    \/ RecordAdmission

SpecOps == Init /\ [][NextOps]_vars

\* the selection of the models with every id, and the operations that send the
\* selected model
NextModels ==
    \/ \E modelId \in ModelIds : setGenerationModel(modelId)
    \/ \E modelId \in ModelIds : setEditModel(modelId)
    \/ \E modelId \in ModelIds : setChatModel(modelId)
    \/ \E o \in {"editImage", "generateImage"}, m \in Messages :
        \E img \in ImagesOf(o, OneImage) :
          /\ NothingInFlight
          /\ Len(admitted) < MaxCalls
          /\ OpStart(o, m, NoModel, img)
    \/ \E o \in Ops : OpPrepared(o)
    \/ \E o \in Ops : OpResolves(o)
    \/ \E o \in Ops : OpHandled(o)
    \/ \E m \in Messages : NothingInFlight /\ sends = 0 /\ SendChatMessage(1, m, Returns, NoModel)
    \/ FetchRejects(1)

SpecModels == Init /\ [][NextModels]_vars

\* the proxy handlers under every request, and editImage with its model
NextProxy ==
    \/ \E modelId \in ModelArgs : setEditModel(modelId)
    \/ \E m \in Messages, model \in ModelArgs, img \in OneImage :
          /\ Len(admitted) < MaxCalls
          /\ OpStart("editImage", m, model, img)
    \/ OpPrepared("editImage")
    \/ OpFetchRejects("editImage")
    \/ OpResolves("editImage")
    \/ OpHandled("editImage")
    \/ \E h \in Handlers, method \in {"GET", "POST"}, apiKey \in BOOLEAN :
          \E body \in BodiesOf(h) \cup ClientBodies(h) :
              ProxyRequest(h, method, apiKey, body)
    \/ ProxyUpstreamRejects
    \/ \E status \in {429, 500}, text \in {"", "Provider returned error"} :
          ProxyUpstreamNotOk(status, text)
    \/ ProxyBodyRejects
    \/ \E text \in UpstreamBodies : ProxyUpstreamOk(text)
    \/ \E n \in 1..Len(proxy.text) : ProxyStreamChunk(n)
    \/ ProxyStreamFails
    \/ ProxyStreamEnds

SpecProxy == Init /\ [][NextProxy]_vars

\* the bodies of the upstream stream when it is piped to the call
PipeBodies ==
    {ContentA \o <<NL>> \o ContentB \o <<NL>>, ContentA \o <<NL>> \o ErrorStreamError \o <<NL>>}

\* one sendChatMessage answered by the chat handler, under every outcome of
\* the upstream call
NextPipe ==
    \/ \E m \in Messages : sends = 0 /\ SendChatMessage(1, m, Returns, NoModel)
    \/ PipeRequest(1)
    \/ ProxyUpstreamRejects
    \/ \E status \in {429, 500}, text \in {"", "Provider returned error"} :
          ProxyUpstreamNotOk(status, text)
    \/ ProxyBodyRejects
    \/ \E text \in PipeBodies : ProxyUpstreamOk(text)
    \/ \E n \in 1..Len(proxy.text) : ProxyStreamChunk(n)
    \/ ProxyStreamFails
    \/ ProxyStreamEnds
    \/ PipeResponseNotOk(1)
    \/ PipeErrorBodyParsed(1)
    \/ PipeResponseOk(1)
    \/ PipeArrives(1)
    \/ \E n \in ChunkSizes(1, FALSE) : ReadChunk(1, n)
    \/ \E n \in ChunkSizes(1, FALSE) : ReadChunkThrows(1, n)
    \/ PipeReadDone(1)

SpecPipe == Init /\ [][NextPipe]_vars

\* the page: uploads, removals, clicks on the image and on the edit button, and
\* the file reads completing in any order
NextPage ==
    \/ \E file \in Files : processUploadedFile(file)
    \/ removeUploadedImage
    \/ \E byEdit \in BOOLEAN : getBase64Image(byEdit)
    \/ \E i \in 1..MaxReads : FileReadCompletes(i)

SpecPage == Init /\ [][NextPage]_vars

(***************************************************************************)
(* Properties                                                              *)
(***************************************************************************)
InFlight == {"fetch", "errbody", "read"}

\* the rejections that happen after the user turn was pushed
AfterAppend == {"network", "http", "httpbody", "stream", "read"}

EndsInTwoUsers(h) ==
    Len(h) >= 2 /\ h[Len(h)].role = "user" /\ h[Len(h) - 1].role = "user"

HasAssistantTurn(h, id) ==
    \E i \in 1..Len(h) : h[i].role = "assistant" /\ h[i].id = id

\* h without the user turn that invocation id pushed
WithoutUserTurn(h, id) == SelectSeq(h, LAMBDA t : ~(t.role = "user" /\ t.id = id))

\* h ends in the user turn of invocation id and the assistant turn answering it
AnswersDirectly(h, id) ==
    /\ Len(h) >= 2
    /\ h[Len(h)].role = "assistant" /\ h[Len(h)].id = id
    /\ h[Len(h) - 1].role = "user" /\ h[Len(h) - 1].id = id

\* what has arrived of the body
Delivered(call) == SubSeq(call.text, 1, call.pos)

\* the decoder run on a text that arrives as one chunk
DecodedAtOnce(text) == ProcessLines([NewDecoder EXCEPT !.buffer = text])

\* the newline-terminated lines of a text
RECURSIVE CompleteLines(_)
CompleteLines(text) ==
    LET i == indexOf(text, NL) IN
    IF i = 0 THEN <<>>
    ELSE <<SubSeq(text, 1, i - 1)>> \o CompleteLines(SubSeq(text, i + 1, Len(text)))

IsData(line) == startsWith(trim(line), DataPrefix)
Payload(line) == SubSeq(trim(line), Len(DataPrefix) + 1, Len(trim(line)))

\* a blank line, a comment line, or a data line whose payload does not parse
Discarded(line) ==
    \/ trim(line) = <<>>
    \/ Head(trim(line)) = ":"
    \/ IsData(line) /\ Payload(line) # DoneSentinel /\ ~JSONparse(Payload(line)).ok

\* a data line whose payload parses and has no error field
ValidData(line) ==
    IsData(line) /\ JSONparse(Payload(line)).ok /\ ~HasError(JSONparse(Payload(line)))

\* the non-empty increments of the valid data lines, in order
RECURSIVE Increments(_)
Increments(ls) ==
    IF ls = <<>> THEN <<>>
    ELSE LET inc == IF ValidData(Head(ls))
                    THEN DeltaContent(JSONparse(Payload(Head(ls))))
                    ELSE <<>>
         IN (IF inc = <<>> THEN <<>> ELSE <<inc>>) \o Increments(Tail(ls))

\* C1: whenever sendChatMessage rejects after it pushed the user turn (network
\* rejection, non-2xx response, stream error, read failure), the chat history
\* is exactly what it was when the call was made.
C1_RollbackRestoresHistory ==
    \A c \in Slots :
        (calls[c].pc = "rejected" /\ calls[c].cause \in AfterAppend)
            => chatHistory = calls[c].pre

\* C2: whenever a call of a sequence of sequential calls has resolved, the
\* chat history does not end in two consecutive user turns.
C2_NoTwoUserTurnsAfterSuccess ==
    \A c \in Slots : calls[c].pc = "resolved" => ~EndsInTwoUsers(chatHistory)

\* C3: while another call is in flight, a call that fails removes exactly the
\* user turn it pushed itself, and a call that resolves with content leaves its
\* assistant turn directly after its own user turn.
C3_OverlapKeepsTurnsApart ==
    [][\A c \in Slots :
          (\E d \in Slots \ {c} : calls[d].pc \in InFlight) =>
             /\ (calls[c].pc \in InFlight /\ calls'[c].pc = "rejected")
                   => chatHistory' = WithoutUserTurn(chatHistory, calls[c].id)
             /\ (/\ calls[c].pc = "read"
                 /\ calls'[c].pc = "resolved"
                 /\ calls[c].dec.fullContent # <<>>)
                   => AnswersDirectly(chatHistory', calls[c].id)]_vars

\* C4: once a data line whose payload has an error field has been processed,
\* whatever the error's message, the call has rejected with the stream error,
\* no increment of a later line was delivered and no assistant turn was pushed.
C4_ErrorFieldStopsDecoding ==
    \A c \in Slots :
        calls[c].dec.sawError =>
            /\ calls[c].pc = "rejected"
            /\ calls[c].cause = "stream"
            /\ ~calls[c].dec.lateError
            /\ ~HasAssistantTurn(chatHistory, calls[c].id)

\* C5: no increment is delivered (or accumulated) after a [DONE] line has been
\* processed.
C5_NothingAfterDone == \A c \in Slots : ~calls[c].dec.lateDone

\* C6: at every point of the stream, the increments delivered, the accumulated
\* response and whether decoding threw are what decoding the text delivered so
\* far in one single chunk gives: they do not depend on where the chunks were cut.
C6_ChunkingIndependent ==
    \A c \in Slots :
        calls[c].pc \in {"read", "resolved", "rejected"} =>
            LET once == DecodedAtOnce(Delivered(calls[c])) IN
            /\ calls[c].dec.emitted = once.emitted
            /\ calls[c].dec.fullContent = once.fullContent
            /\ calls[c].dec.thrown = once.thrown

\* a body of two data lines resolved after a chunk had ended inside a data line
C6_Witness ==
    \E c \in Slots :
        /\ calls[c].pc = "resolved"
        /\ calls[c].cut
        /\ calls[c].text = ContentA \o <<NL>> \o ContentB \o <<NL>>
        /\ calls[c].dec.emitted = <<<<"a">>, <<"b">>>>

\* C7: when every line that has arrived is a blank line, a comment line, a data
\* line that does not parse or a valid data line, decoding has not ended the
\* exchange and the increments delivered are exactly those of the valid data
\* lines, in order: the discarded lines add nothing and hide nothing.
C7_DiscardedLinesAreSkipped ==
    \A c \in Slots :
        LET ls == CompleteLines(Delivered(calls[c])) IN
        (/\ calls[c].pc \in {"read", "resolved", "rejected"}
         /\ \A i \in 1..Len(ls) : Discarded(ls[i]) \/ ValidData(ls[i]))
            => /\ calls[c].dec.emitted = Increments(ls)
               /\ calls[c].cause # "stream"

\* comment, blank and malformed lines arrived before and between two data lines
C7_Witness ==
    \E c \in Slots :
        /\ calls[c].pc = "resolved"
        /\ calls[c].text = KeepAliveBody
        /\ calls[c].dec.emitted = <<<<"a">>, <<"b">>>>

\* C8: when the stream read rejected, the call has rejected, the reader lock is
\* released, no assistant turn was pushed, and from then on no increment is
\* delivered.
C8_AbortStopsAndRejects ==
    /\ [](\A c \in Slots :
             calls[c].cause = "read" =>
                 /\ calls[c].pc = "rejected"
                 /\ ~calls[c].locked
                 /\ ~HasAssistantTurn(chatHistory, calls[c].id))
    /\ [][\A c \in Slots :
             (calls[c].cause = "read" /\ calls'[c].id = calls[c].id)
                 => calls'[c].dec.emitted = calls[c].dec.emitted]_vars

\* the read rejected in the middle of a body, after an increment was delivered
C8_Witness ==
    \E c \in Slots :
        /\ calls[c].cause = "read"
        /\ calls[c].dec.emitted # <<>>
        /\ calls[c].pos < Len(calls[c].text)

\* C9: a step in which sendChatMessage is rejected by the rate-limit gate or by
\* the validation of the message leaves the chat history unchanged, and the
\* rejected call issued no fetch.
C9_GateRejectionLeavesHistory ==
    [][\A c \in Slots :
          (calls'[c] # calls[c] /\ calls'[c].cause \in {"ratelimit", "invalid"})
              => chatHistory' = chatHistory /\ calls'[c].fetches = 0]_vars

\* one call rejected by the gate and one by the validation, history not empty
C9_Witness ==
    /\ chatHistory # <<>>
    /\ \E c \in Slots : calls[c].cause = "ratelimit" /\ calls[c].pre = chatHistory
    /\ \E c \in Slots : calls[c].cause = "invalid" /\ calls[c].pre = chatHistory

\* C10: no more than 10 API operations pass checkRateLimit within 60000 ms (the
\* 11th is rejected), and once more than 60000 ms have passed since every
\* recorded admission a new call is admitted.
C10_EleventhCallRejected ==
    /\ Len(admitted) <= MaxRequests
    /\ (\A i \in 1..Len(requests) : now - requests[i] > TimeWindow)
           => canMakeRequest(requests, now)

\* C11: the limiter's window holds exactly the timestamps of the explicit record
\* steps: however many times checkRateLimit and getRateLimitStatus ran, they
\* consumed no slot; and a step that is not a record step, at a fixed time, does
\* not lower the remaining count nor change the result of the admission check.
C11_CheckRecordsNothing ==
    /\ [](Purge(requests, now) = Purge(recorded, now))
    /\ [][(now' = now /\ recorded' = recorded) =>
            /\ getRemainingRequests(requests', now) >= getRemainingRequests(requests, now)
            /\ canMakeRequest(requests', now) = canMakeRequest(requests, now)]_vars

\* some operations passed the gate, and the status was asked, after a record step
C11_Witness ==
    /\ Len(admitted) >= 2
    /\ Len(recorded) = 1
    /\ getRateLimitStatus(requests, now).remaining = MaxRequests - 1

\* C12: no invocation of an API operation has issued more than one network
\* request, whether it is in flight, has returned or has thrown; one rejected
\* by the gate or by the validation has issued none.
C12_AtMostOneRequest ==
    /\ \A o \in Ops :
          /\ ops[o].fetches <= 1
          /\ ops[o].error \in {RateLimitExceeded, InvalidPrompt} => ops[o].fetches = 0
    /\ \A c \in Slots :
          /\ calls[c].fetches <= 1
          /\ calls[c].cause \in {"ratelimit", "invalid"} => calls[c].fetches = 0

\* editImage threw after its fetch failed, having issued that one request
C12_Witness ==
    /\ ops["editImage"].pc = "rejected"
    /\ ops["editImage"].error = getUserFriendlyError(FailedToFetch)
    /\ ops["editImage"].fetches = 1

\* the concatenation of the first k increments
RECURSIVE Accumulated(_, _)
Accumulated(incs, k) ==
    IF k = 0 THEN <<>> ELSE Accumulated(incs, k - 1) \o incs[k]

\* C13: between two network reads, and when the stream has ended, onChunk has
\* been called exactly once for each complete data line that carries a non-empty
\* delta content (and no error field), in stream order, each call with that
\* line's increment and the response accumulated up to that line and no
\* further: nothing is held back for a later line or a later read.
C13_DeliveredLineByLine ==
    \A c \in Slots :
        LET ls == CompleteLines(Delivered(calls[c]))
            incs == Increments(ls)
        IN calls[c].pc \in {"read", "resolved"}
              => /\ Len(calls[c].dec.sink) = Len(incs)
                 /\ \A k \in 1..Len(incs) :
                       /\ calls[c].dec.sink[k].content = incs[k]
                       /\ calls[c].dec.sink[k].fullContent = Accumulated(incs, k)

\* two increments were delivered while the head of a third data line waits for
\* the next read
C13_Witness ==
    \E c \in Slots :
        /\ calls[c].pc = "read"
        /\ calls[c].text = ContentA \o <<NL>> \o ContentB \o <<NL>> \o ContentA
        /\ Len(calls[c].dec.sink) = 2
        /\ CutsDataLine(calls[c].dec.buffer)

\* C14: every request that editImage or generateImage has sent carries a model
\* id that is a key of IMAGE_GENERATION_MODELS, and every request that
\* sendChatMessage has sent carries a key of CHAT_MODELS, whatever the optional
\* model argument was.
C14_ForwardedModelIsRegistered ==
    /\ \A o \in {"editImage", "generateImage"} :
          ops[o].fetches > 0 => ops[o].model \in IMAGE_GENERATION_MODELS
    /\ \A c \in Slots :
          calls[c].fetches > 0 => calls[c].model \in CHAT_MODELS

\* C15: every error that an API operation has thrown after it issued its
\* request (an upstream, transport or parse failure) carries a message produced
\* by getUserFriendlyError, whatever the text of the failure was.
C15_ThrownErrorsAreNormalized ==
    /\ \A o \in Ops :
          (ops[o].pc = "rejected" /\ ops[o].fetches > 0)
              => ops[o].error \in FriendlyMessages
    /\ \A c \in Slots :
          (calls[c].pc = "rejected" /\ calls[c].fetches > 0)
              => calls[c].error \in FriendlyMessages

\* the image after every step of the schedule: minimum quality and dimensions
RECURSIVE AtFloor(_, _)
AtFloor(img, steps) == IF steps = 0 THEN img ELSE AtFloor(ReEncode(img), steps - 1)

FloorReachable(img) == encodedSize(AtFloor(img, FloorStep)) <= MaxBytes

\* C16: the preparation of an image returns a payload within the byte ceiling
\* when the floor of the schedule is within the ceiling, and fails otherwise;
\* the image in the body of a request that was sent is within the ceiling, and
\* an operation whose preparation failed has thrown without sending a request.
C16_PreparedWithinCeiling ==
    \A o \in Ops :
        /\ ops[o].pc = "prepare" =>
              LET r == prepareImageForUpload(ops[o].image) IN
              /\ r.ok <=> FloorReachable(ops[o].image)
              /\ r.ok => encodedSize(r.image) <= MaxBytes
        /\ ops[o].fetches > 0 => encodedSize(ops[o].image) <= MaxBytes
        /\ (ops[o].pc = "rejected" /\ encodedSize(ops[o].image) > MaxBytes)
              => /\ ops[o].fetches = 0
                 /\ ops[o].error = getUserFriendlyError(ImageTooLarge)

\* editImage sent an image that came down from 16 bytes to the ceiling in two
\* steps, after analyzeImage had been called
C16_Witness ==
    /\ ops["editImage"].pc = "fetch"
    /\ ops["editImage"].image = [bytes |-> MaxBytes, mime |-> "jpeg"]
    /\ Len(admitted) = 2

\* C17: the preparation of an image within the byte ceiling returns that very
\* image, format included; hence the image of a request that was sent, when
\* prepared again, comes back unchanged.
C17_PrepareIsIdempotent ==
    \A o \in Ops :
        /\ (ops[o].pc = "prepare" /\ encodedSize(ops[o].image) <= MaxBytes)
              => prepareImageForUpload(ops[o].image) = [ok |-> TRUE, image |-> ops[o].image]
        /\ (ops[o].fetches > 0 /\ ops[o].image # NoImage)
              => prepareImageForUpload(ops[o].image) = [ok |-> TRUE, image |-> ops[o].image]

\* enhancePromptWithAI sent, as it was, a png image that was within the ceiling
C17_Witness ==
    /\ ops["enhancePromptWithAI"].pc = "fetch"
    /\ ops["enhancePromptWithAI"].image = [bytes |-> 3, mime |-> "png"]

\* C18: a rollback leaves the chat history unchanged when the history is empty
\* or does not end in a user turn; and on the path that rolls back twice in a
\* row (a non-2xx response: the pop, then the catch), the second rollback
\* removes nothing: the history afterwards is the history after the first.
C18_SecondRollbackRemovesNothing ==
    [][\A c \in Slots :
          /\ (/\ calls[c].pc \in InFlight
              /\ calls'[c].pc = "rejected"
              /\ (chatHistory = <<>> \/ chatHistory[Len(chatHistory)].role # "user"))
                => chatHistory' = chatHistory
          /\ (calls[c].pc = "errbody" /\ calls'[c].cause = "http")
                => chatHistory' = pop(chatHistory)]_vars

\* the body has what the handler needs
PassesValidation(h, body) == body.present /\ Validate(h, body) = ""

\* C19: a handler has called the upstream API only for a POST request, with the
\* API key set and a body that passes validation; a request of another method
\* is answered 405, else one without the key 500 'Server configuration error',
\* else one whose body does not pass validation 400, each without an upstream
\* call.
C19_ProxyChecksBeforeUpstream ==
    proxy.pc # "idle" =>
        /\ proxy.upstream > 0 =>
              /\ proxy.method = "POST"
              /\ proxy.apiKey
              /\ PassesValidation(proxy.handler, proxy.body)
        /\ proxy.method # "POST" => proxy.status = 405 /\ proxy.upstream = 0
        /\ (proxy.method = "POST" /\ ~proxy.apiKey)
              => /\ proxy.status = 500
                 /\ proxy.error = "Server configuration error"
                 /\ proxy.upstream = 0
        /\ (/\ proxy.method = "POST"
            /\ proxy.apiKey
            /\ ~PassesValidation(proxy.handler, proxy.body))
              => proxy.status = 400 /\ proxy.upstream = 0

RECURSIVE Concatenated(_)
Concatenated(incs) == IF incs = <<>> THEN <<>> ELSE Head(incs) \o Concatenated(Tail(incs))

\* C21: when a call of a sequence of sequential calls has resolved after at
\* least one increment, the chat history is the history of before the call, then
\* the user turn of the call, then one assistant turn; the content of that turn
\* is the value returned and the concatenation, in order, of the increments that
\* were handed to onChunk.
C21_SuccessAppendsUserThenAssistant ==
    \A c \in Slots :
        (calls[c].pc = "resolved" /\ calls[c].dec.emitted # <<>>) =>
            /\ Len(chatHistory) = Len(calls[c].pre) + 2
            /\ SubSeq(chatHistory, 1, Len(calls[c].pre)) = calls[c].pre
            /\ chatHistory[Len(chatHistory) - 1] =
                  [role |-> "user", content |-> calls[c].sanitizedMessage, id |-> calls[c].id]
            /\ chatHistory[Len(chatHistory)].role = "assistant"
            /\ chatHistory[Len(chatHistory)].content = calls[c].returned
            /\ calls[c].returned =
                  Concatenated([k \in 1..Len(calls[c].dec.sink) |-> calls[c].dec.sink[k].content])

\* a second call resolved with a response of two increments, after a first
\* exchange had left its two turns
C21_Witness ==
    \E c \in Slots :
        /\ calls[c].pc = "resolved"
        /\ Len(calls[c].pre) = 2
        /\ Len(calls[c].dec.sink) = 2
        /\ calls[c].returned = <<"a", "b">>

\* the steps of an image operation, in their order
StepOrder == <<"gate", "validate", "prepare", "fetch">>

IsPrefix(s, t) == Len(s) <= Len(t) /\ SubSeq(t, 1, Len(s)) = s

\* C22: an operation called with an image (analyzeImage, editImage,
\* enhancePromptWithAI with one) has run a prefix of: gate, validation, image
\* preparation, network call; one that the gate rejected has run the gate alone,
\* one with an invalid prompt the gate and the validation, one whose
\* preparation failed those and the preparation; and none of the three has
\* issued a network call.
C22_StepsRunInOrder ==
    \A o \in Ops :
        /\ (o \in {"analyzeImage", "editImage"} \/ ops[o].image # NoImage)
              => IsPrefix(ops[o].steps, StepOrder)
        /\ ops[o].fetches > 0 <=> (ops[o].steps # <<>> /\ ops[o].steps[Len(ops[o].steps)] = "fetch")
        /\ (ops[o].pc = "rejected" /\ ops[o].error = RateLimitExceeded)
              => ops[o].steps = <<"gate">>
        /\ (ops[o].pc = "rejected" /\ ops[o].error = InvalidPrompt)
              => ops[o].steps = <<"gate", "validate">>
        /\ (ops[o].pc = "rejected" /\ ~prepareImageForUpload(ops[o].image).ok)
              => ops[o].steps = <<"gate", "validate", "prepare">>

\* enhancePromptWithAI, called with an image that cannot be brought within the
\* ceiling, threw after the preparation and sent no request
C22_Witness ==
    /\ ops["enhancePromptWithAI"].pc = "rejected"
    /\ ops["enhancePromptWithAI"].image = [bytes |-> 20, mime |-> "png"]
    /\ ops["enhancePromptWithAI"].steps = <<"gate", "validate", "prepare">>
    /\ ops["enhancePromptWithAI"].fetches = 0

\* C23: on every body, however it is cut into chunks: every character that has
\* arrived is in the buffer or was removed from it by an iteration of the line
\* loop, each iteration removed at least one, there were no more iterations
\* than complete lines (exactly as many unless a line threw), so no line was
\* processed twice and the loop ended with no complete line left; a read moves
\* the call forward in the body or settles it; and once the whole body has
\* arrived and the stream has closed, the call settles: it resolves or rejects.
C23_DecodingTerminates ==
    /\ [](\A c \in Slots :
             calls[c].pc \in {"read", "resolved", "rejected"} =>
                 LET dec == calls[c].dec
                     ls == CompleteLines(Delivered(calls[c]))
                 IN /\ dec.removed + Len(dec.buffer) = calls[c].pos
                    /\ dec.iterations <= dec.removed
                    /\ dec.iterations <= Len(ls)
                    /\ ~dec.thrown => /\ dec.iterations = Len(ls)
                                      /\ indexOf(dec.buffer, NL) = 0)
    /\ [][\A c \in Slots :
             (calls[c].pc = "read" /\ calls'[c] # calls[c])
                 => \/ calls'[c].pc \in {"resolved", "rejected"}
                    \/ /\ calls'[c].pc = "read"
                       /\ calls'[c].pos > calls[c].pos
                       /\ calls'[c].pos <= Len(calls[c].text)]_vars
    /\ \A c \in Slots :
          (calls[c].pc = "read" /\ calls[c].pos = Len(calls[c].text))
              ~> (calls[c].pc \in {"resolved", "rejected"})

\* a body of six lines, cut inside a data line, was decoded in six iterations
\* and the call resolved
C23_Witness ==
    \E c \in Slots :
        /\ calls[c].pc = "resolved"
        /\ calls[c].text = KeepAliveBody
        /\ calls[c].cut
        /\ calls[c].dec.iterations = 6
        /\ calls[c].dec.removed = Len(KeepAliveBody)

\* C24: whatever ids setGenerationModel, setEditModel and setChatModel were
\* called with, the current generation model and the current edit model are
\* keys of IMAGE_GENERATION_MODELS and the current chat model is a key of
\* CHAT_MODELS (a call with an id that is no key changed nothing).
C24_CurrentModelsAreRegistered ==
    /\ currentGenerationModel \in IMAGE_GENERATION_MODELS
    /\ currentEditModel \in IMAGE_GENERATION_MODELS
    /\ currentChatModel \in CHAT_MODELS

\* C25: whatever sendChatMessage calls were made one after the other and
\* whenever clearChatHistory was called, also while an exchange is in flight,
\* every assistant turn of the chat history directly follows a user turn; the
\* history does not start with an assistant turn.
C25_AssistantFollowsUser ==
    \A i \in 1..Len(chatHistory) :
        chatHistory[i].role = "assistant" => (i > 1 /\ chatHistory[i - 1].role = "user")

\* C26: with an onChunk that throws an Error of a message other than 'Stream
\* error' at each call, and a stream without an error payload, the exchange has
\* not ended with a stream error; the response accumulated holds every increment
\* of the valid data lines that arrived, the one whose delivery threw included;
\* and onChunk was called for each of them, the later ones too.
C26_SinkExceptionIsSwallowed ==
    \A c \in Slots :
        LET ls == CompleteLines(Delivered(calls[c]))
            incs == Increments(ls)
        IN (/\ calls[c].pc \in {"read", "resolved", "rejected"}
            /\ calls[c].dec.onChunk = "throws boom")
              => /\ calls[c].cause # "stream"
                 /\ ~calls[c].dec.thrown
                 /\ calls[c].dec.fullContent = Concatenated(incs)
                 /\ Len(calls[c].dec.sink) = Len(incs)
                 /\ \A k \in 1..Len(incs) :
                       /\ calls[c].dec.sink[k].content = incs[k]
                       /\ calls[c].dec.sink[k].fullContent = Accumulated(incs, k)
                 /\ calls[c].pc = "resolved" => calls[c].returned = ReturnValue(Concatenated(incs))

\* the call resolved with two increments, each handed to an onChunk that threw
C26_Witness ==
    \E c \in Slots :
        /\ calls[c].pc = "resolved"
        /\ calls[c].dec.onChunk = "throws boom"
        /\ Len(calls[c].dec.sink) = 2
        /\ calls[c].returned = <<"a", "b">>
        /\ HasAssistantTurn(chatHistory, calls[c].id)

\* the lines of a text, the last one with or without its newline
AllLinesOf(text) ==
    IF text = <<>> \/ text[Len(text)] = NL THEN CompleteLines(text)
    ELSE CompleteLines(text \o <<NL>>)

\* C27: when the call has resolved, the increments delivered are those of every
\* valid data line the stream carried, a last line that the stream closed on
\* without a newline included, and nothing of the body is left in the buffer.
C27_LastLineIsDelivered ==
    \A c \in Slots :
        calls[c].pc = "resolved" =>
            /\ calls[c].dec.emitted = Increments(AllLinesOf(calls[c].text))
            /\ trim(calls[c].dec.buffer) = <<>>

\* how many times event occurs in out
Count(out, event) == Cardinality({i \in 1..Len(out) : out[i] = event})

\* C28: of what a handler has called on its response: at most one call ends the
\* response (json with a status, or end) and nothing follows it; once the
\* headers of the stream are set no json response is sent; an invocation that is
\* over has sent either one json response and nothing else, or, for a chat
\* request in stream mode, the headers, then writes, then one end; and one that
\* is not over has not ended its response.
C28_OneTerminalResponse ==
    LET out == proxy.out
        terminal == {i \in 1..Len(out) : out[i] \in {"json", "end"}}
    IN /\ Cardinality(terminal) <= 1
       /\ \A i \in terminal : i = Len(out)
       /\ Count(out, "setHeader") > 0 => Count(out, "json") = 0
       /\ proxy.pc = "done" =>
             \/ out = <<"json">>
             \/ /\ proxy.handler = "chat" /\ proxy.body.stream
                /\ Len(out) >= 2
                /\ out[1] = "setHeader"
                /\ out[Len(out)] = "end"
                /\ \A i \in 2..(Len(out) - 1) : out[i] = "write"
       /\ proxy.pc \notin {"idle", "done"} => terminal = {}

\* a read of the upstream stream failed after one chunk had been written, and
\* the response was ended
C28_Witness ==
    /\ proxy.pc = "done"
    /\ proxy.failed
    /\ proxy.out = <<"setHeader", "write", "end">>

\* C29: when a read of the upstream stream has failed in the chat handler after
\* the streaming had started, the call of sendChatMessage that it answers has
\* not resolved and has pushed no assistant turn.
C29_UpstreamFailureIsNotSuccess ==
    \A c \in Slots :
        (proxy.failed /\ calls[c].id > 0) =>
            /\ calls[c].pc # "resolved"
            /\ ~HasAssistantTurn(chatHistory, calls[c].id)

\* C30: the cached encoding, when there is one, is the encoding of the current
\* image file; and every image that applyAIEdit has passed to editImage was the
\* encoding of the file that was current when it was sent.
C30_CacheIsOfCurrentFile ==
    /\ ui.currentBase64Image # Null =>
          /\ ui.currentImageFile # Null
          /\ ui.currentBase64Image = fileToBase64(ui.currentImageFile)
    /\ \A k \in 1..Len(ui.edits) :
          /\ ui.edits[k].file # Null
          /\ ui.edits[k].image = fileToBase64(ui.edits[k].file)

=============================================================================
